---- MODULE Spec2Model ----
(***************************************************************************)
(* Tic-tac-toe backend: the game service (apply_move and its helpers), the *)
(* repositories it writes through and the transactional session around     *)
(* each request.                                                           *)
(*                                                                         *)
(* The database state is what has been committed.  A request runs in its   *)
(* own session: it reads the game row, validates and computes the new      *)
(* board from what it read, and then persists the move record and the game *)
(* update in one transaction (session_scope commits when the handler       *)
(* returns, rolls back when it raises).                                    *)
(***************************************************************************)
EXTENDS Integers, Sequences, FiniteSets, TLC

(* ------------------------------ bounds -------------------------------- *)
\* request handlers that may be in flight at once (SpecConcurrent)
MaxRequests == 2
\* move records stored before SpecConcurrent stops accepting moves
MaxMoves == 2
\* largest player id in use, and largest cell addressed, in SpecTurn
MaxPlayerId == 1
MaxCell == 4
\* games stored (SpecGames, SpecLeaderboard)
MaxGames == 2

(* ------------------------------ values -------------------------------- *)
None == "None"
\* an Optional[int] that is None (player ids are never negative)
NoId == -1
\* what session.get returns for an id with no row
NoGame == [none |-> TRUE]

\* GameStatus (db/models.py)
IN_PROGRESS == "in_progress"
X_WON == "x_won"
O_WON == "o_won"
DRAW == "draw"

\* detail strings returned by apply_move
GameNotFound == "Game not found"
GameNotInProgress == "Game is not in progress"
PositionOutOfRange == "Position must be between 0 and 8"
CellOccupied == "Cell already occupied"
WrongTurnX == "It is X's turn"
WrongTurnO == "It is O's turn"
\* the handler raised and session_scope rolled back
ServerError == "Internal Server Error"
\* detail string of create_player
UsernameExists == "Username already exists"

\* Python truthiness of an Optional[int]
Truthy(v) == v # NoId /\ v # 0

(* ---------------------------- game_service ---------------------------- *)
\* a str is modelled as the sequence of its characters
board_to_list(board) == [i \in 1..Len(board) |-> board[i]]

list_to_board(cells) == [i \in 1..Len(cells) |-> cells[i]]

\* str.count of a one-character string
count(board, ch) == Len(SelectSeq(board, LAMBDA c : c = ch))

\* mutant: the turn never passes to O
compute_current_player_AlwaysX(board) == "X"

compute_current_player(board) ==
    LET x_count == count(board, "X")
        o_count == count(board, "O")
    IN  IF x_count = o_count THEN "X" ELSE "O"

\* mutant: the top row is missing from the table
WIN_LINES_NoTopRow == << <<3, 4, 5>>, <<6, 7, 8>>,
                         <<0, 3, 6>>, <<1, 4, 7>>, <<2, 5, 8>>,
                         <<0, 4, 8>>, <<2, 4, 6>> >>

WIN_LINES == << <<0, 1, 2>>, <<3, 4, 5>>, <<6, 7, 8>>,
                <<0, 3, 6>>, <<1, 4, 7>>, <<2, 5, 8>>,
                <<0, 4, 8>>, <<2, 4, 6>> >>

\* the first line, in WIN_LINES order, that one mark fills decides
RECURSIVE detect_winner_from(_, _)
detect_winner_from(cells, k) ==
    IF k > Len(WIN_LINES) THEN None
    ELSE LET a == WIN_LINES[k][1]
             b == WIN_LINES[k][2]
             c == WIN_LINES[k][3]
         IN  IF cells[a + 1] # " " /\ cells[a + 1] = cells[b + 1]
                                   /\ cells[b + 1] = cells[c + 1]
             THEN cells[a + 1]
             ELSE detect_winner_from(cells, k + 1)

detect_winner(board) == detect_winner_from(board_to_list(board), 1)

\* mutant: a full board is not recognised
is_draw_Never(board) == FALSE

is_draw(board) ==
    /\ \A i \in 1..Len(board) : board[i] # " "
    /\ detect_winner(board) = None

\* mutant: a full board is a draw, whatever its lines
status_of_DrawFirst(new_board) ==
    IF \A i \in 1..Len(new_board) : new_board[i] # " " THEN DRAW
    ELSE IF detect_winner(new_board) = "X" THEN X_WON
    ELSE IF detect_winner(new_board) = "O" THEN O_WON
    ELSE IN_PROGRESS

\* lines 131-139 of apply_move
status_of(new_board) ==
    LET winner == detect_winner(new_board)
    IN  IF winner = "X" THEN X_WON
        ELSE IF winner = "O" THEN O_WON
        ELSE IF is_draw(new_board) THEN DRAW
        ELSE IN_PROGRESS

\* mutant: the status is not checked
apply_move_error_NoStatusCheck(game, position, player_id) ==
    IF game = NoGame THEN GameNotFound
    ELSE IF position < 0 \/ position > 8 THEN PositionOutOfRange
    ELSE IF board_to_list(game.board)[position + 1] # " " THEN CellOccupied
    ELSE None

\* mutant: the position is checked before the status
apply_move_error_RangeFirst(game, position, player_id) ==
    IF game = NoGame THEN GameNotFound
    ELSE IF position < 0 \/ position > 8 THEN PositionOutOfRange
    ELSE IF game.status # IN_PROGRESS THEN GameNotInProgress
    ELSE IF board_to_list(game.board)[position + 1] # " " THEN CellOccupied
    ELSE None

\* mutant: the occupied-cell check is missing
apply_move_error_NoCellCheck(game, position, player_id) ==
    IF game = NoGame THEN GameNotFound
    ELSE IF game.status # IN_PROGRESS THEN GameNotInProgress
    ELSE IF position < 0 \/ position > 8 THEN PositionOutOfRange
    ELSE None

\* mutant: only X's turn is enforced
apply_move_error_NoOCheck(game, position, player_id) ==
    IF game = NoGame THEN GameNotFound
    ELSE IF game.status # IN_PROGRESS THEN GameNotInProgress
    ELSE IF position < 0 \/ position > 8 THEN PositionOutOfRange
    ELSE IF board_to_list(game.board)[position + 1] # " " THEN CellOccupied
    ELSE IF /\ compute_current_player(game.board) = "X"
            /\ Truthy(game.player_x_id)
            /\ player_id # NoId
            /\ player_id # game.player_x_id
         THEN WrongTurnX
         ELSE None

\* mutant: the turn is enforced even when no player id is given
apply_move_error_AlwaysEnforce(game, position, player_id) ==
    IF game = NoGame THEN GameNotFound
    ELSE IF game.status # IN_PROGRESS THEN GameNotInProgress
    ELSE IF position < 0 \/ position > 8 THEN PositionOutOfRange
    ELSE IF board_to_list(game.board)[position + 1] # " " THEN CellOccupied
    ELSE LET current_player_mark == compute_current_player(game.board)
         IN  IF /\ current_player_mark = "X"
                /\ Truthy(game.player_x_id)
                /\ player_id # game.player_x_id
             THEN WrongTurnX
             ELSE IF /\ current_player_mark = "O"
                     /\ Truthy(game.player_o_id)
                     /\ player_id # game.player_o_id
             THEN WrongTurnO
             ELSE None

\* lines 97-121 of apply_move: the error returned for the game read (None
\* when the id does not resolve), or None when the move is accepted
apply_move_error(game, position, player_id) ==
    IF game = NoGame THEN GameNotFound
    ELSE IF game.status # IN_PROGRESS THEN GameNotInProgress
    ELSE IF position < 0 \/ position > 8 THEN PositionOutOfRange
    ELSE IF board_to_list(game.board)[position + 1] # " " THEN CellOccupied
    ELSE LET current_player_mark == compute_current_player(game.board)
         IN  IF /\ (Truthy(game.player_x_id) \/ Truthy(game.player_o_id))
                /\ player_id # NoId
                /\ current_player_mark = "X"
                /\ Truthy(game.player_x_id)
                /\ player_id # game.player_x_id
             THEN WrongTurnX
             ELSE IF /\ (Truthy(game.player_x_id) \/ Truthy(game.player_o_id))
                     /\ player_id # NoId
                     /\ current_player_mark = "O"
                     /\ Truthy(game.player_o_id)
                     /\ player_id # game.player_o_id
             THEN WrongTurnO
             ELSE None

\* lines 124-125 of apply_move
place_mark(board, position, mark) ==
    list_to_board([board_to_list(board) EXCEPT ![position + 1] = mark])

(* ------------------------------- state -------------------------------- *)
VARIABLES
    games,   \* committed rows of table game; the id is the index
    moves,   \* committed rows of table move, in id (insertion) order
    lock,    \* the request whose session holds the database write lock, or 0
    req,     \* per request handler: its position and its session's data
    resp,    \* per request handler: what the last finished request returned
    players, \* committed rows of table player; the id is the index
    arg,     \* the argument of a direct call of a game_service function
    ret      \* what that call returned

vars == <<games, moves, lock, req, resp, players, arg, ret>>

\* mutant: the two slots are stored the other way round
NewGame_SlotsSwapped(player_x_id, player_o_id) ==
    [board |-> [i \in 1..9 |-> " "], status |-> IN_PROGRESS, winner |-> None,
     finished_at |-> None, player_x_id |-> player_o_id,
     player_o_id |-> player_x_id]

\* Game(player_x_id, player_o_id) with the defaults of GameBase
NewGame(player_x_id, player_o_id) ==
    [board |-> [i \in 1..9 |-> " "], status |-> IN_PROGRESS, winner |-> None,
     finished_at |-> None, player_x_id |-> player_x_id,
     player_o_id |-> player_o_id]

Idle == [pc |-> "idle"]

NoResponse == [game |-> NoGame, err |-> None]

\* no function of game_service has been called directly
NoCall == [fn |-> None]

\* session.get(Game, game_id)
get_by_id(game_id) ==
    IF game_id \in 1..Len(games) THEN games[game_id] ELSE NoGame

Init ==
    /\ games = <<>>
    /\ moves = <<>>
    /\ lock = 0
    /\ req = [r \in 1..MaxRequests |-> Idle]
    /\ resp = [r \in 1..MaxRequests |-> NoResponse]
    /\ players = <<>>
    /\ arg = <<>>
    /\ ret = NoCall

(* ---------------------------- repositories ---------------------------- *)
\* mutant: every update stamps the finish timestamp
update_board_and_status_AlwaysStamp(game, board, status, winner) ==
    [game EXCEPT !.board = board,
                 !.status = status,
                 !.winner = winner,
                 !.finished_at = "utcnow"]

\* mutant: the winner column is not written
update_board_and_status_NoWinner(game, board, status, winner) ==
    [game EXCEPT !.board = board,
                 !.status = status,
                 !.finished_at = IF status \in {X_WON, O_WON, DRAW}
                                 THEN "utcnow" ELSE @]

\* GameRepository.update_board_and_status on the session's game object
update_board_and_status(game, board, status, winner) ==
    [game EXCEPT !.board = board,
                 !.status = status,
                 !.winner = winner,
                 !.finished_at = IF status \in {X_WON, O_WON, DRAW}
                                 THEN "utcnow" ELSE @]

\* Move(game_id, position, mark, player_id)
NewMove(game_id, position, mark, player_id) ==
    [game_id |-> game_id, position |-> position, mark |-> mark,
     player_id |-> player_id]

\* session.commit(): the UPDATE of the game row carries the attributes whose
\* value differs from the value the session loaded, and no others
flush_update(row, loaded, object) ==
    [f \in DOMAIN row |-> IF object[f] # loaded[f] THEN object[f] ELSE row[f]]

(* ------------------------------ handlers ------------------------------ *)
\* map_status_for_api
map_status_for_api(status) ==
    IF status = IN_PROGRESS THEN "in-progress"
    ELSE IF status = DRAW THEN "draw"
    ELSE IF status \in {X_WON, O_WON} THEN "won"
    ELSE "in-progress"

\* map_winner_for_api
map_winner_for_api(status) ==
    IF status = X_WON THEN "X"
    ELSE IF status = O_WON THEN "O"
    ELSE None

\* mutant: the conditional expression grouped from the left
current_player_for_api_LeftGrouped(game) ==
    IF game.status \in {X_WON, O_WON}
    THEN (IF game.status = IN_PROGRESS
          THEN compute_current_player(game.board)
          ELSE IF game.status = O_WON THEN "X" ELSE "O")
    ELSE "X"

\* the currentPlayer expression of get_game (line 167) and make_move (line
\* 201): a conditional expression groups from the right
current_player_for_api(game) ==
    IF game.status = IN_PROGRESS THEN compute_current_player(game.board)
    ELSE IF game.status \in {X_WON, O_WON}
         THEN (IF game.status = O_WON THEN "X" ELSE "O")
         ELSE "X"

\* the response model GameState
GameState(id, board, currentPlayer, status, winner) ==
    [id |-> id, board |-> board, currentPlayer |-> currentPlayer,
     status |-> status, winner |-> winner]

\* POST /games: create_new_game inside session_scope (the INSERT waits for
\* the write lock), and the initial state returned
create_game(r, player_x_id, player_o_id) ==
    /\ req[r].pc = "idle"
    /\ lock = 0
    /\ LET game == NewGame(player_x_id, player_o_id)
       IN  /\ games' = Append(games, game)
           /\ resp' = [resp EXCEPT ![r] =
                          [game |-> game, err |-> None,
                           state |-> GameState(Len(games) + 1,
                                               board_to_list(game.board),
                                               compute_current_player(game.board),
                                               map_status_for_api(game.status),
                                               None)]]
    /\ UNCHANGED <<moves, lock, req, players, arg, ret>>

\* mutant: every error of apply_move is answered with status 400
make_move_error_Always400(err) ==
    [game |-> NoGame, err |-> err, status_code |-> 400]

\* make_move, lines 193-196: the HTTPException raised for an error of
\* apply_move
make_move_error(err) ==
    [game |-> NoGame, err |-> err,
     status_code |-> IF err = GameNotFound THEN 404 ELSE 400]

\* mutant: the move record is stored before the turn is checked
begin_move_StoreBeforeTurnCheck(r, game_id, position, player_id) ==
    /\ req[r].pc = "idle"
    /\ LET game == get_by_id(game_id)
           err == apply_move_error(game, position, player_id)
       IN  IF err # None
           THEN /\ resp' = [resp EXCEPT ![r] = make_move_error(err)]
                /\ moves' = IF err \in {WrongTurnX, WrongTurnO}
                            THEN Append(moves,
                                        [game_id |-> game_id,
                                         position |-> position,
                                         mark |-> compute_current_player(game.board),
                                         player_id |-> player_id])
                            ELSE moves
                /\ UNCHANGED req
           ELSE /\ req' = [req EXCEPT ![r] =
                               [pc |-> "persist", game_id |-> game_id,
                                position |-> position, player_id |-> player_id,
                                game |-> game]]
                /\ resp' = [resp EXCEPT ![r] = NoResponse]
                /\ UNCHANGED moves
    /\ UNCHANGED <<games, lock, players, arg, ret>>

\* apply_move, lines 97-125: read the game, validate, and either return the
\* error or go on to persist
begin_move(r, game_id, position, player_id) ==
    /\ req[r].pc = "idle"
    /\ LET game == get_by_id(game_id)
           err == apply_move_error(game, position, player_id)
       IN  IF err # None
           THEN /\ resp' = [resp EXCEPT ![r] = make_move_error(err)]
                /\ UNCHANGED req
           ELSE /\ req' = [req EXCEPT ![r] =
                               [pc |-> "persist", game_id |-> game_id,
                                position |-> position, player_id |-> player_id,
                                game |-> game]]
                /\ resp' = [resp EXCEPT ![r] = NoResponse]
    /\ UNCHANGED <<games, moves, lock, players, arg, ret>>

\* apply_move, line 128: MoveRepository.create flushes the INSERT, which
\* takes the database write lock; the row stays invisible until the commit
flush_move(r) ==
    /\ req[r].pc = "persist"
    /\ lock = 0
    /\ lock' = r
    /\ req' = [req EXCEPT ![r].pc = "flushed"]
    /\ UNCHANGED <<games, moves, resp, players, arg, ret>>

\* mutant: the UPDATE of the game row has no WHERE clause
commit_move_NoWhere(r) ==
    /\ req[r].pc = "flushed"
    /\ LET game == req[r].game
           current_player_mark == compute_current_player(game.board)
           new_board == place_mark(game.board, req[r].position,
                                   current_player_mark)
           winner == detect_winner(new_board)
           status == status_of(new_board)
           updated == update_board_and_status(game, new_board, status, winner)
       IN  /\ moves' = Append(moves, NewMove(req[r].game_id, req[r].position,
                                             current_player_mark,
                                             req[r].player_id))
           /\ games' = [h \in DOMAIN games |->
                           flush_update(games[h], game, updated)]
           /\ resp' = [resp EXCEPT ![r] = [game |-> updated, err |-> None]]
    /\ lock' = 0
    /\ req' = [req EXCEPT ![r] = Idle]
    /\ UNCHANGED <<players, arg, ret>>

\* apply_move, lines 131-143, the response of make_move (lines 198-205) and
\* the commit of session_scope: the move record and the game update become
\* visible together
commit_move(r) ==
    /\ req[r].pc = "flushed"
    /\ LET game == req[r].game
           current_player_mark == compute_current_player(game.board)
           new_board == place_mark(game.board, req[r].position,
                                   current_player_mark)
           winner == detect_winner(new_board)
           status == status_of(new_board)
           updated == update_board_and_status(game, new_board, status, winner)
       IN  /\ moves' = Append(moves, NewMove(req[r].game_id, req[r].position,
                                             current_player_mark,
                                             req[r].player_id))
           /\ games' = [games EXCEPT ![req[r].game_id] =
                             flush_update(@, game, updated)]
           /\ resp' = [resp EXCEPT ![r] =
                          [game |-> updated, err |-> None,
                           state |-> GameState(req[r].game_id,
                                               board_to_list(updated.board),
                                               current_player_for_api(updated),
                                               map_status_for_api(updated.status),
                                               map_winner_for_api(updated.status))]]
    /\ lock' = 0
    /\ req' = [req EXCEPT ![r] = Idle]
    /\ UNCHANGED <<players, arg, ret>>

\* GET /games/{game_id}
get_game(r, game_id) ==
    /\ req[r].pc = "idle"
    /\ LET game == get_by_id(game_id)
       IN  resp' = [resp EXCEPT ![r] =
                       IF game = NoGame
                       THEN [game |-> NoGame, err |-> GameNotFound,
                             status_code |-> 404]
                       ELSE [game |-> game, err |-> None,
                             state |-> GameState(game_id,
                                                 board_to_list(game.board),
                                                 current_player_for_api(game),
                                                 map_status_for_api(game.status),
                                                 map_winner_for_api(game.status))]]
    /\ UNCHANGED <<games, moves, lock, req, players, arg, ret>>

\* session_scope, lines 63-65: the INSERT finds the write lock held by
\* another session until the driver gives up ("database is locked"); the
\* exception leaves the handler and the session is rolled back
busy_timeout(r) ==
    /\ req[r].pc \in {"persist", "create"}
    /\ lock \notin {0, r}
    /\ req' = [req EXCEPT ![r] = Idle]
    /\ resp' = [resp EXCEPT ![r] = [game |-> NoGame, err |-> ServerError]]
    /\ UNCHANGED <<games, moves, lock, players, arg, ret>>

\* mutant: the moves are listed newest first
RECURSIVE list_for_game_Descending(_, _)
list_for_game_Descending(game_id, k) ==
    IF k > Len(moves) THEN <<>>
    ELSE list_for_game_Descending(game_id, k + 1)
         \o (IF moves[k].game_id = game_id
             THEN << [id |-> k, position |-> moves[k].position,
                      player |-> moves[k].mark] >>
             ELSE <<>>)

\* MoveRepository.list_for_game and lines 228-230 of game_history: the items
\* of the moves of the game from id k on, in ascending id; the id of a move
\* is its place in the table (rows are never deleted)
RECURSIVE list_for_game(_, _)
list_for_game(game_id, k) ==
    IF k > Len(moves) THEN <<>>
    ELSE (IF moves[k].game_id = game_id
          THEN << [id |-> k, position |-> moves[k].position,
                   player |-> moves[k].mark] >>
          ELSE <<>>)
         \o list_for_game(game_id, k + 1)

\* GET /games/{game_id}/history
game_history(r, game_id) ==
    /\ req[r].pc = "idle"
    /\ resp' = [resp EXCEPT ![r] =
                   IF get_by_id(game_id) = NoGame
                   THEN [game |-> NoGame, err |-> GameNotFound,
                         status_code |-> 404]
                   ELSE [game |-> NoGame, err |-> None,
                         items |-> list_for_game(game_id, 1)]]
    /\ UNCHANGED <<games, moves, lock, req, players, arg, ret>>

\* PlayerRepository.get_by_username(username) is not None
username_stored(username) ==
    \E i \in 1..Len(players) : players[i].username = username

\* POST /players, lines 117-120: the existence check, on what is committed
begin_create_player(r, username) ==
    /\ req[r].pc = "idle"
    /\ IF username_stored(username)
       THEN /\ resp' = [resp EXCEPT ![r] =
                           [game |-> NoGame, err |-> UsernameExists,
                            status_code |-> 400]]
            /\ UNCHANGED req
       ELSE /\ req' = [req EXCEPT ![r] =
                          [pc |-> "create", username |-> username]]
            /\ resp' = [resp EXCEPT ![r] = NoResponse]
    /\ UNCHANGED <<games, moves, lock, players, arg, ret>>

\* POST /players, line 121: PlayerRepository.create flushes the INSERT, which
\* takes the database write lock; the unique index on username (models.py
\* line 18) refuses a username committed since the check, the IntegrityError
\* leaves the handler and session_scope rolls back
flush_player(r) ==
    /\ req[r].pc = "create"
    /\ lock = 0
    /\ IF username_stored(req[r].username)
       THEN /\ req' = [req EXCEPT ![r] = Idle]
            /\ resp' = [resp EXCEPT ![r] =
                           [game |-> NoGame, err |-> ServerError]]
            /\ UNCHANGED lock
       ELSE /\ lock' = r
            /\ req' = [req EXCEPT ![r].pc = "created"]
            /\ UNCHANGED resp
    /\ UNCHANGED <<games, moves, players, arg, ret>>

\* POST /players, line 122, and the commit of session_scope
commit_player(r) ==
    /\ req[r].pc = "created"
    /\ players' = Append(players, [username |-> req[r].username])
    /\ resp' = [resp EXCEPT ![r] =
                   [game |-> NoGame, err |-> None,
                    player |-> [id |-> Len(players) + 1,
                                username |-> req[r].username]]]
    /\ lock' = 0
    /\ req' = [req EXCEPT ![r] = Idle]
    /\ UNCHANGED <<games, moves, arg, ret>>

(* ------------------------- direct function calls ---------------------- *)
\* lines 130-139 of apply_move, applied to the board in arg
call_classify ==
    /\ ret = NoCall
    /\ Len(arg) = 9
    /\ ret' = [fn |-> "classify", winner |-> detect_winner(arg),
               status |-> status_of(arg)]
    /\ UNCHANGED <<games, moves, lock, req, resp, players, arg>>

\* board_to_list(arg): list() of a str returns, whatever the length
call_board_to_list ==
    /\ ret = NoCall
    /\ ret' = [fn |-> "board_to_list", value |-> board_to_list(arg),
               raised |-> None]
    /\ UNCHANGED <<games, moves, lock, req, resp, players, arg>>

\* list_to_board(arg): "".join() of a list returns, whatever the length
call_list_to_board ==
    /\ ret = NoCall
    /\ ret' = [fn |-> "list_to_board", value |-> list_to_board(arg),
               raised |-> None]
    /\ UNCHANGED <<games, moves, lock, req, resp, players, arg>>

(* ----------------------------- leaderboard ---------------------------- *)
\* A username is the sequence of the code points of its characters.
\* an Optional[str] that is None (no character has a negative code point)
NoUsername == << -1 >>

\* Python truthiness of an Optional[str]
StrTruthy(u) == u # NoUsername /\ u # <<>>

\* the order of str: the first differing character decides, else the length
RECURSIVE str_lt(_, _)
str_lt(a, b) ==
    IF a = <<>> THEN b # <<>>
    ELSE IF b = <<>> THEN FALSE
    ELSE IF a[1] # b[1] THEN a[1] < b[1]
    ELSE str_lt(Tail(a), Tail(b))

\* mutant: the usernames are listed in descending order
RECURSIVE sorted_Descending(_)
sorted_Descending(S) ==
    IF S = {} THEN <<>>
    ELSE LET m == CHOOSE x \in S : \A y \in S \ {x} : str_lt(y, x)
         IN  <<m>> \o sorted_Descending(S \ {m})

\* sorted() of a set of str
RECURSIVE sorted(_)
sorted(S) ==
    IF S = {} THEN <<>>
    ELSE LET m == CHOOSE x \in S : \A y \in S \ {x} : str_lt(x, y)
         IN  <<m>> \o sorted(S \ {m})

\* A dict[str, int] is the sequence of its (key, value) items in insertion
\* order.
dict_keys(d) == {d[i][1] : i \in 1..Len(d)}

\* d.get(k, default)
dict_get(d, k, default) ==
    IF k \in dict_keys(d)
    THEN d[CHOOSE i \in 1..Len(d) : d[i][1] = k][2]
    ELSE default

\* d[k] = d.get(k, 0) + 1
dict_inc(d, k) ==
    IF k \in dict_keys(d)
    THEN [i \in 1..Len(d) |-> IF d[i][1] = k THEN <<k, d[i][2] + 1>> ELSE d[i]]
    ELSE Append(d, <<k, 1>>)

\* session.get(Player, player_id), then p.username if p else None
player_username(player_id) ==
    IF player_id \in 1..Len(players) THEN players[player_id].username
    ELSE NoUsername

\* LeaderboardService.compute, lines 128-140: the scan of all games from
\* game k on
RECURSIVE compute_wins(_, _)
compute_wins(k, wins) ==
    IF k > Len(games) THEN wins
    ELSE LET g == games[k]
             winner_username ==
                 IF g.status = X_WON /\ Truthy(g.player_x_id)
                 THEN player_username(g.player_x_id)
                 ELSE IF g.status = O_WON /\ Truthy(g.player_o_id)
                 THEN player_username(g.player_o_id)
                 ELSE NoUsername
         IN  compute_wins(k + 1,
                          IF g.status \in {X_WON, O_WON}
                             /\ StrTruthy(winner_username)
                          THEN dict_inc(wins, winner_username)
                          ELSE wins)

\* sorted(items, key=wins, reverse=True): stable, items with equal wins keep
\* their order
RECURSIVE sorted_by_wins(_)
sorted_by_wins(items) ==
    IF items = <<>> THEN <<>>
    ELSE LET h == Head(items)
             rest == sorted_by_wins(Tail(items))
             n == Cardinality({i \in 1..Len(rest) : rest[i][2] > h[2]})
         IN  SubSeq(rest, 1, n) \o <<h>> \o SubSeq(rest, n + 1, Len(rest))

\* LeaderboardService.compute
compute(limit) ==
    LET sorted_items == sorted_by_wins(compute_wins(1, <<>>))
    IN  SubSeq(sorted_items, 1,
               IF Len(sorted_items) < limit THEN Len(sorted_items) ELSE limit)

\* GameRepository.list: the newest games first
list_games(limit, offset) ==
    LET n == Len(games)
        newest_first == [i \in 1..n |-> games[n + 1 - i]]
    IN  SubSeq(newest_first, offset + 1,
               IF n < offset + limit THEN n ELSE offset + limit)

\* leaderboard, lines 261-270
username_for(player_id) ==
    IF ~Truthy(player_id) THEN NoUsername ELSE player_username(player_id)

\* leaderboard, lines 272-290: the losses counted in the games listed
RECURSIVE scan_losses(_, _)
scan_losses(listed, losses_map) ==
    IF listed = <<>> THEN losses_map
    ELSE LET g == Head(listed)
             ux == username_for(g.player_x_id)
             uo == username_for(g.player_o_id)
         IN  scan_losses(Tail(listed),
                 IF g.status = X_WON /\ StrTruthy(uo)
                 THEN dict_inc(losses_map, uo)
                 ELSE IF g.status = O_WON /\ StrTruthy(ux)
                 THEN dict_inc(losses_map, ux)
                 ELSE losses_map)

\* mutant: a draw is counted for the X player only
RECURSIVE scan_draws_XOnly(_, _)
scan_draws_XOnly(listed, draws_map) ==
    IF listed = <<>> THEN draws_map
    ELSE LET g == Head(listed)
             ux == username_for(g.player_x_id)
         IN  scan_draws_XOnly(Tail(listed),
                 IF g.status = DRAW /\ StrTruthy(ux)
                 THEN dict_inc(draws_map, ux)
                 ELSE draws_map)

\* leaderboard, lines 272-279: the draws counted in the games listed
RECURSIVE scan_draws(_, _)
scan_draws(listed, draws_map) ==
    IF listed = <<>> THEN draws_map
    ELSE LET g == Head(listed)
             ux == username_for(g.player_x_id)
             uo == username_for(g.player_o_id)
             with_x == IF StrTruthy(ux) THEN dict_inc(draws_map, ux)
                       ELSE draws_map
             with_o == IF StrTruthy(uo) THEN dict_inc(with_x, uo) ELSE with_x
         IN  scan_draws(Tail(listed),
                        IF g.status = DRAW THEN with_o ELSE draws_map)

\* the limits leaderboard passes to compute and to GameRepository.list
WinsLimit == 1000
GamesLimit == 10000

\* leaderboard, lines 246-303: the entries returned
leaderboard_entries ==
    LET wins_map == compute(WinsLimit)
        listed == list_games(GamesLimit, 0)
        losses_map == scan_losses(listed, <<>>)
        draws_map == scan_draws(listed, <<>>)
        usernames == dict_keys(wins_map) \cup dict_keys(losses_map)
                         \cup dict_keys(draws_map)
        order == sorted(usernames)
    IN  [i \in 1..Len(order) |->
            LET u == order[i]
                w == dict_get(wins_map, u, 0)
                l == dict_get(losses_map, u, 0)
                d == dict_get(draws_map, u, 0)
            IN  [username |-> u, wins |-> w, losses |-> l, draws |-> d,
                 score |-> w * 3 + d * 1]]

\* GET /leaderboard
leaderboard(r) ==
    /\ req[r].pc = "idle"
    /\ resp' = [resp EXCEPT ![r] =
                   [game |-> NoGame, err |-> None,
                    entries |-> leaderboard_entries]]
    /\ UNCHANGED <<games, moves, lock, req, players, arg, ret>>

(* --------------------------- specifications --------------------------- *)
Requests == 1..MaxRequests
OptionalIds == {NoId} \cup (0..MaxPlayerId)
\* apply_move takes any int as position (the request schema MoveRequest in
\* front of make_move admits 0..8 only)
Positions == -1..9

\* One request at a time on one two-player game (X is player 1, O is
\* player 2), played to the end by clients that send no player id.  The
\* opening move goes to a corner, an edge or the centre (cells 0, 1, 4: every
\* other opening is a rotation of one of these); later moves go anywhere.
Openings == {-1, 0, 1, 4, 9}

Next ==
    \/ games = <<>> /\ create_game(1, 1, 2)
    \/ \E p \in (IF moves = <<>> THEN Openings ELSE Positions) :
          begin_move(1, 1, p, NoId)
    \/ flush_move(1)
    \/ commit_move(1)

Spec == Init /\ [][Next]_vars

\* One request at a time on one game whose slots are empty or hold a player
\* (players have ids from 1), by clients that send any player id or none
\* and address the cells up to MaxCell.
NextTurn ==
    \/ \E px \in OptionalIds \ {0}, po \in OptionalIds \ {0} :
          games = <<>> /\ create_game(1, px, po)
    \/ \E p \in (-1..MaxCell) \cup {9}, pid \in OptionalIds :
          begin_move(1, 1, p, pid)
    \/ flush_move(1)
    \/ commit_move(1)

SpecTurn == Init /\ [][NextTurn]_vars

\* Concurrent requests on one game, until MaxMoves moves are stored.
NextConcurrent ==
    \/ games = <<>> /\ create_game(1, 1, 2)
    \/ \E r \in Requests, p \in Positions :
          Len(moves) < MaxMoves /\ begin_move(r, 1, p, NoId)
    \/ \E r \in Requests : flush_move(r)
    \/ \E r \in Requests : commit_move(r)
    \/ \E r \in Requests : busy_timeout(r)

SpecConcurrent == Init /\ [][NextConcurrent]_vars

\* One request at a time on up to MaxGames games, created at any time with
\* any slots; moves go to the first cells of either game, or of a game that
\* does not exist yet, until MaxLog moves are stored.
MaxLog == 3

NextGames ==
    \/ \E px \in OptionalIds, po \in OptionalIds :
          Len(games) < MaxGames /\ create_game(1, px, po)
    \/ \E g \in 1..MaxGames, p \in 0..1, pid \in {NoId, 1} :
          Len(moves) < MaxLog /\ begin_move(1, g, p, pid)
    \/ flush_move(1)
    \/ commit_move(1)
    \/ \E g \in 1..MaxGames : game_history(1, g)

SpecGames == Init /\ [][NextGames]_vars

\* "a", "ab", "b"
Usernames == {<<97>>, <<97, 98>>, <<98>>}

\* The same requests when two players are stored.
InitIndependent ==
    /\ games = <<>>
    /\ moves = <<>>
    /\ lock = 0
    /\ req = [r \in 1..MaxRequests |-> Idle]
    /\ resp = [r \in 1..MaxRequests |-> NoResponse]
    /\ players = <<[username |-> <<97>>], [username |-> <<98>>]>>
    /\ arg = <<>>
    /\ ret = NoCall

SpecIndependent == InitIndependent /\ [][NextGames]_vars

\* One request at a time on one game, played on for as long as a move to an
\* empty cell can be submitted; clients also address occupied cells and
\* finished games, and read the game.  The opening goes to the centre.
MoveToEmptyCell ==
    /\ games # <<>>
    /\ games[1].status = IN_PROGRESS
    /\ \E p \in 0..8 : games[1].board[p + 1] = " " /\ begin_move(1, 1, p, NoId)

NextPlay ==
    \/ games = <<>> /\ create_game(1, 1, 2)
    \/ \E p \in (IF moves = <<>> THEN {4} ELSE 0..8) :
          begin_move(1, 1, p, NoId)
    \/ flush_move(1)
    \/ commit_move(1)
    \/ get_game(1, 1)

\* commit_move(1), with the new board and the updated object computed once
MoveCommitted ==
    /\ req[1].pc = "flushed"
    /\ \E new_board \in {place_mark(req[1].game.board, req[1].position,
                                    compute_current_player(req[1].game.board))} :
       \E updated \in {update_board_and_status(req[1].game, new_board,
                                               status_of(new_board),
                                               detect_winner(new_board))} :
          /\ moves' = Append(moves,
                             NewMove(req[1].game_id, req[1].position,
                                     compute_current_player(req[1].game.board),
                                     req[1].player_id))
          /\ games' = [games EXCEPT ![req[1].game_id] =
                            flush_update(@, req[1].game, updated)]
          /\ resp' = [resp EXCEPT ![1] =
                         [game |-> updated, err |-> None,
                          state |-> GameState(req[1].game_id,
                                              board_to_list(updated.board),
                                              current_player_for_api(updated),
                                              map_status_for_api(updated.status),
                                              map_winner_for_api(updated.status))]]
    /\ lock' = 0
    /\ req' = [req EXCEPT ![1] = Idle]
    /\ UNCHANGED <<players, arg, ret>>

\* A request that has been received is handled to its end, and moves to
\* empty cells keep being submitted.
SpecPlay ==
    /\ Init
    /\ [][NextPlay]_vars
    /\ WF_vars(games = <<>> /\ create_game(1, 1, 2))
    /\ WF_vars(MoveToEmptyCell)
    /\ WF_vars(flush_move(1))
    /\ WF_vars(MoveCommitted)

\* Concurrent requests to create players.
NextPlayers ==
    \/ \E r \in Requests, u \in Usernames : begin_create_player(r, u)
    \/ \E r \in Requests : flush_player(r)
    \/ \E r \in Requests : commit_player(r)
    \/ \E r \in Requests : busy_timeout(r)

SpecPlayers == Init /\ [][NextPlayers]_vars

\* The leaderboard over stored games and players.  Every stored game is a
\* fresh one or one played to its end by clients that sent no player id
\* (X won with the top row, O won with the middle row, or a draw); its slots
\* hold no id, 0, or an id that is or is not the id of a stored player.
MaxPlayers == 2

PlayerTables ==
    {t \in UNION {[1..n -> [username : Usernames]] : n \in 0..MaxPlayers} :
        \A i \in 1..Len(t), j \in 1..Len(t) :
            i # j => t[i].username # t[j].username}

PlayedPositions(status) ==
    IF status = X_WON THEN <<0, 3, 1, 4, 2>>
    ELSE IF status = O_WON THEN <<0, 3, 1, 4, 8, 5>>
    ELSE IF status = DRAW THEN <<0, 1, 2, 4, 3, 5, 7, 6, 8>>
    ELSE <<>>

PlayedMoves(game_id, status) ==
    [k \in 1..Len(PlayedPositions(status)) |->
        NewMove(game_id, PlayedPositions(status)[k],
                IF k % 2 = 1 THEN "X" ELSE "O", NoId)]

RECURSIVE PlayedBoard(_, _)
PlayedBoard(played, board) ==
    IF played = <<>> THEN board
    ELSE PlayedBoard(Tail(played),
                     place_mark(board, Head(played).position,
                                Head(played).mark))

StoredGame(status, player_x_id, player_o_id) ==
    LET game == NewGame(player_x_id, player_o_id)
        board == PlayedBoard(PlayedMoves(0, status), game.board)
    IN  IF status = IN_PROGRESS THEN game
        ELSE update_board_and_status(game, board, status_of(board),
                                     detect_winner(board))

StoredGames ==
    {StoredGame(status, px, po) :
        status \in {IN_PROGRESS, X_WON, O_WON, DRAW},
        px \in {NoId} \cup (0..MaxPlayers),
        po \in {NoId} \cup (0..MaxPlayers)}

RECURSIVE StoredMoves(_, _)
StoredMoves(table, g) ==
    IF g > Len(table) THEN <<>>
    ELSE PlayedMoves(g, table[g].status) \o StoredMoves(table, g + 1)

InitLeaderboard ==
    /\ players \in PlayerTables
    /\ games \in UNION {[1..n -> StoredGames] : n \in 0..MaxGames}
    /\ moves = StoredMoves(games, 1)
    /\ lock = 0
    /\ req = [r \in 1..MaxRequests |-> Idle]
    /\ resp = [r \in 1..MaxRequests |-> NoResponse]
    /\ arg = <<>>
    /\ ret = NoCall

NextLeaderboard == leaderboard(1)

SpecLeaderboard == InitLeaderboard /\ [][NextLeaderboard]_vars

\* The functions of game_service called directly, on every board of 9 cells
\* and on boards that are too short or too long.
MaxShort == 2
BoardLengths == (0..MaxShort) \cup {8, 9, 10}

InitRules ==
    /\ arg \in UNION {[1..n -> {" ", "X", "O"}] : n \in BoardLengths}
    /\ ret = NoCall
    /\ games = <<>>
    /\ moves = <<>>
    /\ players = <<>>
    /\ lock = 0
    /\ req = [r \in 1..MaxRequests |-> Idle]
    /\ resp = [r \in 1..MaxRequests |-> NoResponse]

NextRules ==
    \/ call_classify
    \/ call_board_to_list
    \/ call_list_to_board

SpecRules == InitRules /\ [][NextRules]_vars

(* ------------------------------ properties ---------------------------- *)
\* The rules of the game, stated without the service's helpers.
Lines == {{0, 1, 2}, {3, 4, 5}, {6, 7, 8}, {0, 3, 6}, {1, 4, 7}, {2, 5, 8},
          {0, 4, 8}, {2, 4, 6}}
Fills(board, m) == \E l \in Lines : \A p \in l : board[p + 1] = m
Full(board) == \A i \in 1..Len(board) : board[i] # " "
Marks(board, m) == Cardinality({i \in 1..Len(board) : board[i] = m})
Turn(board) == IF Marks(board, "X") = Marks(board, "O") THEN "X" ELSE "O"
Terminal(game) == game.status \in {X_WON, O_WON, DRAW}

\* Handler 1 is free, and a request for game g, position p by player pid
\* can only end by returning error e with nothing stored.
Rejects(g, p, pid, e) ==
    ENABLED (/\ begin_move(1, g, p, pid)
             /\ resp'[1].err = e
             /\ req'[1].pc = "idle"
             /\ games' = games
             /\ moves' = moves)

\* Handler 1 is free, and a request for game g, position p by player pid
\* passes validation and goes on to store its move.
Accepts(g, p, pid) ==
    ENABLED (/\ begin_move(1, g, p, pid)
             /\ req'[1].pc = "persist"
             /\ req'[1].position = p
             /\ req'[1].player_id = pid)

\* C1: every stored game has a 9-cell board, its status is the one its
\* board determines (won by m iff m fills a line, else draw iff the board is
\* full, else in progress) and its winner is set iff the status is a won
\* one, to the mark that won.
C1_Consistent ==
    \A g \in 1..Len(games) :
        LET game == games[g] IN
        /\ Len(game.board) = 9
        /\ game.status = X_WON <=> Fills(game.board, "X")
        /\ game.status = O_WON <=> Fills(game.board, "O")
        /\ game.status = DRAW <=>
               /\ Full(game.board)
               /\ ~Fills(game.board, "X")
               /\ ~Fills(game.board, "O")
        /\ game.status = IN_PROGRESS <=>
               /\ ~Full(game.board)
               /\ ~Fills(game.board, "X")
               /\ ~Fills(game.board, "O")
        /\ game.winner # None <=> game.status \in {X_WON, O_WON}
        /\ game.status = X_WON => game.winner = "X"
        /\ game.status = O_WON => game.winner = "O"

C1_Witness ==
    \E g \in 1..Len(games) : games[g].status = DRAW /\ Len(moves) = 9
\* C7: an accepted move changes exactly one cell, from empty to the mark
\* whose turn it is (X when the board holds as many X as O, else O), and
\* stores one move record with that mark; X is never behind O nor more than
\* one ahead; the stored marks read X, O, X, O, ...
C7_Step ==
    (games' # games \/ moves' # moves) =>
    \A g \in 1..Len(games) :
        LET b == games[g].board
            c == games'[g].board
        IN  /\ \E i \in 1..9 :
                 /\ b[i] = " "
                 /\ c[i] = Turn(b)
                 /\ \A j \in (1..9) \ {i} : c[j] = b[j]
            /\ Len(moves') = Len(moves) + 1
            /\ moves'[Len(moves')].mark = Turn(b)
            /\ Marks(c, "X") - Marks(c, "O") \in {0, 1}
            /\ \A k \in 1..Len(moves') :
                 moves'[k].mark = IF k % 2 = 1 THEN "X" ELSE "O"

C7_OneMarkPerMove == [][C7_Step]_vars

C7_Witness ==
    /\ Len(moves) = 9
    /\ Marks(games[1].board, "X") = 5
    /\ Marks(games[1].board, "O") = 4
\* C5: a move on a game that is not in progress is rejected with "Game is
\* not in progress" whatever the position (in range or not, occupied or
\* empty) and whatever the player id (given or not); so a game that is
\* terminal is never changed again.
C5_Step ==
    /\ games' # games =>
          /\ \A g \in 1..Len(games) : ~Terminal(games[g])
          /\ \A g \in 1..Len(games') :
                Terminal(games'[g]) =>
                    \A p \in Positions, pid \in OptionalIds :
                        apply_move_error(games'[g], p, pid) = GameNotInProgress
    /\ (resp' # resp \/ req' # req) =>
          \A g \in 1..Len(games) :
              Terminal(games[g]) =>
                  /\ resp'[1].err = GameNotInProgress
                  /\ req' = req
                  /\ games' = games
                  /\ moves' = moves

C5_TerminalRejects == [][C5_Step]_vars

C5_Witness ==
    /\ games # <<>>
    /\ games[1].status = O_WON
    /\ resp[1].err = GameNotInProgress

\* C8 as stated: once 0, 1 and 2 have been played in a row on a fresh
\* game, X has won.
C8_ThreeInARowWins ==
    (/\ Len(moves) = 3
     /\ moves[1].position = 0
     /\ moves[2].position = 1
     /\ moves[3].position = 2)
    => (games[1].status = X_WON /\ games[1].winner = "X")

\* C8, amended: when X's moves go to 0, 1 and 2 and O's two moves between
\* them go elsewhere, the move at 2 makes the status X-won with winner X,
\* and every later move attempt is rejected with "Game is not in progress".
C8_Scenario ==
    /\ Len(moves) = 5
    /\ moves[1].position = 0
    /\ moves[3].position = 1
    /\ moves[5].position = 2

C8_TopRowWins ==
    C8_Scenario =>
        /\ games[1].status = X_WON
        /\ games[1].winner = "X"
        /\ moves[5].mark = "X"
        /\ \A p \in Positions, pid \in OptionalIds :
               Rejects(1, p, pid, GameNotInProgress)

C8_Witness == C8_Scenario /\ resp[1].err = GameNotInProgress
\* C4: a request that returns one of apply_move's errors stores nothing:
\* the game rows and the move records are as before and nothing is left
\* pending.
ValidationErrors ==
    {GameNotFound, GameNotInProgress, PositionOutOfRange, CellOccupied,
     WrongTurnX, WrongTurnO}

C4_Step ==
    resp' # resp =>
        \A r \in Requests :
            (resp'[r] # resp[r] /\ resp'[r].err \in ValidationErrors) =>
                /\ games' = games
                /\ moves' = moves
                /\ req'[r].pc = "idle"

C4_ErrorsStoreNothing == [][C4_Step]_vars

C4_Witness ==
    /\ Len(moves) = 5
    /\ games[1].finished_at # None
    /\ resp[1].err = GameNotInProgress

\* The handler is free and the last request, if any, was accepted.  The
\* outcome of a request depends on the stored game alone, and every stored
\* game occurs in such a state.
Ready == games # <<>> /\ req[1].pc = "idle" /\ resp[1].err = None

Occupied(game) == {p \in 0..8 : game.board[p + 1] # " "}
Empty(game) == {p \in 0..8 : game.board[p + 1] = " "}

\* C6 as stated: a move to an occupied cell of any existing game is
\* rejected with "Cell already occupied" and stores nothing.
C6_OccupiedRejected ==
    Ready =>
        \A p \in Occupied(games[1]), pid \in OptionalIds :
            Rejects(1, p, pid, CellOccupied)

\* C6, amended: a move to an occupied cell of a game that is in progress is
\* rejected with "Cell already occupied" and stores nothing.
C6_OccupiedRejectedInProgress ==
    (Ready /\ games[1].status = IN_PROGRESS) =>
        \A p \in Occupied(games[1]), pid \in OptionalIds :
            Rejects(1, p, pid, CellOccupied)

C6_Witness ==
    /\ resp[1].err = CellOccupied
    /\ games[1].status = IN_PROGRESS
    /\ Len(moves) = 4

\* The slot of the player whose turn it is, and the error for the others.
TurnSlot(game) ==
    IF Turn(game.board) = "X" THEN game.player_x_id ELSE game.player_o_id
WrongTurn(game) ==
    IF Turn(game.board) = "X" THEN WrongTurnX ELSE WrongTurnO

\* C9 as stated: on a game in progress with a player in at least one slot,
\* a move to an empty cell by a player whose id is not the one in the slot
\* of the turn (also when that slot is empty) is rejected with the
\* wrong-turn error.
C9_MismatchRejected ==
    (/\ Ready
     /\ games[1].status = IN_PROGRESS
     /\ (games[1].player_x_id # NoId \/ games[1].player_o_id # NoId)) =>
        LET slot == TurnSlot(games[1])
            err == WrongTurn(games[1])
        IN  \A p \in Empty(games[1]), pid \in (OptionalIds \ {NoId, slot}) :
                Rejects(1, p, pid, err)

\* C9, amended: when the slot of the turn holds a player (a non-zero id), a
\* move to an empty cell of the game in progress by a player with another
\* id is rejected with the wrong-turn error and stores nothing.
C9_MismatchRejectedWhenSlotHeld ==
    (/\ Ready
     /\ games[1].status = IN_PROGRESS
     /\ TurnSlot(games[1]) \notin {NoId, 0}) =>
        LET slot == TurnSlot(games[1])
            err == WrongTurn(games[1])
        IN  \A p \in Empty(games[1]), pid \in (OptionalIds \ {NoId, slot}) :
                Rejects(1, p, pid, err)

C9_Witness ==
    /\ resp[1].err = WrongTurnO
    /\ games[1].player_o_id = 1
    /\ Len(moves) = 3

\* C10: when no slot of the game holds a player, or the request names no
\* player, the wrong-turn error is never returned, and a move to an empty
\* cell of a game in progress is accepted and places the mark of the turn.
LenientIds(game) ==
    IF game.player_x_id = NoId /\ game.player_o_id = NoId
    THEN OptionalIds ELSE {NoId}

C10_Lenient ==
    /\ Ready =>
          \A pid \in LenientIds(games[1]) :
              /\ \A p \in Positions :
                     apply_move_error(games[1], p, pid)
                         \notin {WrongTurnX, WrongTurnO}
              /\ games[1].status = IN_PROGRESS =>
                     \A p \in Empty(games[1]) : Accepts(1, p, pid)
    /\ (games # <<>> /\ req[1].pc = "persist"
           /\ req[1].player_id \in LenientIds(games[1]))
          => ENABLED flush_move(1)
    /\ (Ready /\ moves # <<>>) =>
          LET last == moves[Len(moves)]
              before == [games[1].board EXCEPT ![last.position + 1] = " "]
          IN  last.player_id \in LenientIds(games[1]) =>
                  /\ games[1].board[last.position + 1] = last.mark
                  /\ last.mark = Turn(before)

C10_Witness ==
    /\ games # <<>>
    /\ games[1].player_x_id = NoId
    /\ games[1].player_o_id = NoId
    /\ Len(moves) = 2
    /\ moves[1].player_id = 1
    /\ moves[2].player_id = 1
\* The board obtained by replaying the move records of game g, in insertion
\* order, on an empty board.
RECURSIVE Replay(_, _, _)
Replay(records, g, board) ==
    IF records = <<>> THEN board
    ELSE LET m == Head(records)
         IN  Replay(Tail(records), g,
                    IF m.game_id = g
                    THEN [board EXCEPT ![m.position + 1] = m.mark]
                    ELSE board)

MovesOf(g) == SelectSeq(moves, LAMBDA m : m.game_id = g)

\* C2: two requests on the same game never both place a mark for the same
\* turn, nor both place a mark into the same cell: the stored moves of a game
\* go to different cells and their marks alternate, starting with X.
C2_NoDoublePlacement ==
    \A g \in 1..Len(games) :
        LET ms == MovesOf(g)
        IN  \A i \in 1..Len(ms), j \in 1..Len(ms) :
                i < j =>
                    /\ ms[i].position # ms[j].position
                    /\ j = i + 1 => ms[i].mark # ms[j].mark

\* C3: replaying a game's move records on an empty board gives the stored
\* board, and the game has as many move records as its board has marks.
C3_LogMatchesBoard ==
    \A g \in 1..Len(games) :
        /\ Replay(moves, g, [i \in 1..9 |-> " "]) = games[g].board
        /\ Len(MovesOf(g)) =
               Marks(games[g].board, "X") + Marks(games[g].board, "O")

\* What the rules of section 4.4 give username u over the stored games.
Resolves(player_id, u) ==
    player_id \in 1..Len(players) /\ players[player_id].username = u

WonBy(u) ==
    {g \in 1..Len(games) :
        \/ games[g].status = X_WON /\ Resolves(games[g].player_x_id, u)
        \/ games[g].status = O_WON /\ Resolves(games[g].player_o_id, u)}

LostBy(u) ==
    {g \in 1..Len(games) :
        \/ games[g].status = X_WON /\ Resolves(games[g].player_o_id, u)
        \/ games[g].status = O_WON /\ Resolves(games[g].player_x_id, u)}

DrawnAsX(u) ==
    {g \in 1..Len(games) :
        games[g].status = DRAW /\ Resolves(games[g].player_x_id, u)}

DrawnAsO(u) ==
    {g \in 1..Len(games) :
        games[g].status = DRAW /\ Resolves(games[g].player_o_id, u)}

Returned == "entries" \in DOMAIN resp[1]

EntriesOf(u) ==
    {i \in 1..Len(resp[1].entries) : resp[1].entries[i].username = u}

\* C11: in the leaderboard returned, the entry of username u has wins = the
\* won games whose winning side resolves to u, losses = the won games whose
\* losing side resolves to u, draws = the drawn games with u as X plus those
\* with u as O; a side that is absent or does not resolve is skipped alone,
\* games in progress count for nothing, and a username with a count has an
\* entry.  One X-won game and one draw between players 1 and 2 give player 1
\* wins 1, draws 1 and player 2 losses 1, draws 1.
C11_Scenario ==
    /\ Len(players) = 2
    /\ Len(games) = 2
    /\ \A g \in 1..2 : games[g].player_x_id = 1 /\ games[g].player_o_id = 2
    /\ {games[1].status, games[2].status} = {X_WON, DRAW}

Before(a, b) ==
    \E k \in 1..(Len(b)) :
        /\ \A i \in 1..(k - 1) : i <= Len(a) /\ a[i] = b[i]
        /\ \/ k = Len(a) + 1
           \/ k <= Len(a) /\ a[k] < b[k]

\* C12: every entry has score = 3 * wins + draws, no username has two
\* entries, and the entries ascend by username whatever their scores.
C12_ScoreAndOrder ==
    Returned =>
        LET entries == resp[1].entries
        IN  /\ \A i \in 1..Len(entries) :
                   entries[i].score = 3 * entries[i].wins + entries[i].draws
            /\ \A i \in 1..Len(entries), j \in 1..Len(entries) :
                   i < j => Before(entries[i].username, entries[j].username)

C12_Witness ==
    /\ Returned
    /\ Len(resp[1].entries) = 2
    /\ resp[1].entries[1].username = <<97>>
    /\ resp[1].entries[2].username = <<97, 98>>
    /\ resp[1].entries[1].score = 0
    /\ resp[1].entries[2].score = 4

\* C13: a 9-cell board in which at most one mark fills a line is classified
\* won by m iff m fills one of the 8 lines (also when the board is full),
\* draw iff it is full and no mark fills a line, in progress otherwise; the
\* winner is m when won and absent otherwise.  XOXOXOOXO is a draw.
C13_Classified ==
    (ret.fn = "classify" /\ ~(Fills(arg, "X") /\ Fills(arg, "O"))) =>
        /\ ret.status = X_WON <=> Fills(arg, "X")
        /\ ret.status = O_WON <=> Fills(arg, "O")
        /\ ret.status = DRAW <=>
               Full(arg) /\ ~Fills(arg, "X") /\ ~Fills(arg, "O")
        /\ ret.status = IN_PROGRESS <=>
               ~Full(arg) /\ ~Fills(arg, "X") /\ ~Fills(arg, "O")
        /\ ret.winner = (IF Fills(arg, "X") THEN "X"
                         ELSE IF Fills(arg, "O") THEN "O" ELSE None)
        /\ arg = <<"X", "O", "X", "O", "X", "O", "O", "X", "O">> =>
               ret.status = DRAW /\ ret.winner = None

C13_Witness ==
    /\ ret.fn = "classify"
    /\ arg = <<"X", "O", "X", "O", "X", "O", "O", "X", "O">>
    /\ ret.status = DRAW

\* C15: board_to_list of a board, and list_to_board of a cell list, whose
\* length is not 9 fail with MalformedBoard instead of returning a value.
MalformedBoard == "MalformedBoard"

C15_MalformedRejected ==
    (ret.fn \in {"board_to_list", "list_to_board"} /\ Len(arg) # 9) =>
        ret.raised = MalformedBoard

\* C14: createGame succeeds for any optional player ids (one id in both
\* slots and no id included) and yields a game with an all-empty 9-cell
\* board, status in progress, no winner, no finish timestamp, no move
\* record, current player X, and the slots as given; the stored games and
\* moves are as before.
Created(px, po) ==
    LET id == Len(games) + 1
    IN  /\ Len(games') = id
        /\ \A g \in 1..Len(games) : games'[g] = games[g]
        /\ games'[id].board = [i \in 1..9 |-> " "]
        /\ games'[id].status = IN_PROGRESS
        /\ games'[id].winner = None
        /\ games'[id].finished_at = None
        /\ games'[id].player_x_id = px
        /\ games'[id].player_o_id = po
        /\ moves' = moves
        /\ \A k \in 1..Len(moves') : moves'[k].game_id # id
        /\ resp'[1].err = None
        /\ resp'[1].state =
               [id |-> id, board |-> [i \in 1..9 |-> " "],
                currentPlayer |-> "X", status |-> "in-progress",
                winner |-> None]

C14_CreateGame ==
    req[1].pc = "idle" =>
        \A px \in OptionalIds, po \in OptionalIds :
            /\ ENABLED (create_game(1, px, po) /\ Created(px, po))
            /\ ~ENABLED (create_game(1, px, po) /\ ~Created(px, po))

C14_Witness ==
    /\ Len(games) = 2
    /\ games[2].player_x_id = 1
    /\ games[2].player_o_id = 1
    /\ games[2].board = [i \in 1..9 |-> " "]
    /\ Len(moves) = 2
    /\ "state" \in DOMAIN resp[1]

\* C17: the move log only grows at its end: an accepted move appends one
\* record with the game id, the position played, the mark placed and the
\* acting player id, and no stored record changes; the history of a game
\* lists that game's records, and no others, oldest first.
History(g) ==
    LET ids == {k \in 1..Len(moves) : moves[k].game_id = g}
    IN  CHOOSE items \in [1..Cardinality(ids) -> [id : ids, position : 0..8,
                                                  player : {"X", "O"}]] :
            /\ \A i \in 1..Len(items), j \in 1..Len(items) :
                   i < j => items[i].id < items[j].id
            /\ \A i \in 1..Len(items) :
                   /\ items[i].position = moves[items[i].id].position
                   /\ items[i].player = moves[items[i].id].mark

C17_Step ==
    /\ moves' # moves =>
          /\ Len(moves') = Len(moves) + 1
          /\ \A k \in 1..Len(moves) : moves'[k] = moves[k]
          /\ LET record == moves'[Len(moves')]
                 g == req[1].game_id
             IN  /\ record.game_id = g
                 /\ record.position = req[1].position
                 /\ record.player_id = req[1].player_id
                 /\ games[g].board[record.position + 1] = " "
                 /\ games'[g].board[record.position + 1] = record.mark
    /\ games' # games /\ Len(games') = Len(games) =>
          Len(moves') = Len(moves) + 1

C17_History ==
    req[1].pc = "idle" =>
        \A g \in 1..Len(games) :
            /\ ENABLED (game_history(1, g) /\ resp'[1].items = History(g))
            /\ ~ENABLED (game_history(1, g) /\ resp'[1].items # History(g))

C17_AppendOnly == [][C17_Step]_vars /\ []C17_History

C17_Witness ==
    /\ Len(moves) = 3
    /\ moves[1].game_id = 2
    /\ moves[2].game_id = 1
    /\ moves[3].game_id = 2
    /\ "items" \in DOMAIN resp[1]
    /\ Len(resp[1].items) = 2
    /\ resp[1].items[1].id = 1
    /\ resp[1].items[2].id = 3

\* C16: the finish timestamp of a game is set iff its status is terminal;
\* it is absent while the game is in progress and it is stamped by the
\* accepted move that makes the game terminal, and by no other step.
C16_SetIffTerminal ==
    \A g \in 1..Len(games) : games[g].finished_at # None <=> Terminal(games[g])

C16_Step ==
    games' # games =>
        \A g \in 1..Len(games) :
            games'[g].finished_at # games[g].finished_at =>
                /\ games[g].finished_at = None
                /\ ~Terminal(games[g])
                /\ Terminal(games'[g])
                /\ Len(moves') = Len(moves) + 1
                /\ moves'[Len(moves')].game_id = g

C16_FinishStamp == []C16_SetIffTerminal /\ [][C16_Step]_vars

C16_Witness ==
    /\ games # <<>>
    /\ games[1].status = X_WON
    /\ games[1].finished_at # None
    /\ Len(moves) = 7

\* C19: in sequential play no board holds a line of X together with a line
\* of O, so the winner detect_winner reports is the one mark that fills a
\* line, whichever line is looked at first.
Winners(board) == {m \in {"X", "O"} : Fills(board, m)}

C19_OneWinner ==
    \A g \in 1..Len(games) :
        LET board == games[g].board
        IN  /\ ~(Fills(board, "X") /\ Fills(board, "O"))
            /\ detect_winner(board) = None <=> Winners(board) = {}
            /\ detect_winner(board) # None =>
                   Winners(board) = {detect_winner(board)}

C19_Witness ==
    /\ games # <<>>
    /\ games[1].status = O_WON
    /\ Len(moves) = 8
    /\ Fills(games[1].board, "O")

\* C20: the error of a move request is the first that applies of: game not
\* found, game not in progress, position out of range, cell occupied, wrong
\* turn; on a game in progress every position below 0 or above 8 gives
\* "position out of range"; an unknown game id is answered with status 404,
\* every other error with status 400.
FirstError(g, p, pid) ==
    IF g \notin 1..Len(games) THEN GameNotFound
    ELSE IF Terminal(games[g]) THEN GameNotInProgress
    ELSE IF p \notin 0..8 THEN PositionOutOfRange
    ELSE IF p \in Occupied(games[g]) THEN CellOccupied
    ELSE IF /\ pid # NoId
            /\ TurnSlot(games[g]) \notin {NoId, 0}
            /\ pid # TurnSlot(games[g])
         THEN WrongTurn(games[g])
         ELSE None

RejectsWith(g, p, pid, e, code) ==
    ENABLED (/\ begin_move(1, g, p, pid)
             /\ resp'[1].err = e
             /\ resp'[1].status_code = code
             /\ req'[1].pc = "idle"
             /\ games' = games
             /\ moves' = moves)

C18_Unique ==
    \A i \in 1..Len(players), j \in 1..Len(players) :
        i # j => players[i].username # players[j].username

C18_Step ==
    \A r \in Requests :
        (/\ req[r].pc = "create"
         /\ req'[r].pc = "idle"
         /\ username_stored(req[r].username)) =>
            /\ resp'[r].err = UsernameExists
            /\ players' = players

C18_UniqueOrConflict == []C18_Unique /\ [][C18_Step]_vars

C21_Bounded ==
    \A g \in 1..Len(games) :
        /\ Len(MovesOf(g)) <= 9
        /\ games[g].status = IN_PROGRESS => ~Full(games[g].board)

C21_Frozen ==
    \A g \in 1..Len(games) :
        Terminal(games[g]) => games'[g] = games[g] /\ MovesOf(g)' = MovesOf(g)

\* C21: a game accepts at most 9 moves, a game in progress never has a full
\* board, a terminal game accepts no move, and a game to which moves to
\* empty cells keep being submitted reaches a terminal status.
C21_Terminates ==
    /\ []C21_Bounded
    /\ [][C21_Frozen]_vars
    /\ (games # <<>>) ~> (games # <<>> /\ Terminal(games[1]))

\* a drawn game with nine logged moves has just refused a tenth
C21_Witness ==
    /\ games # <<>>
    /\ games[1].status = DRAW
    /\ Len(moves) = 9
    /\ resp[1].err = GameNotInProgress

\* the game that the step writes to: the one whose move is being committed
Written(h) == req[1].pc = "flushed" /\ req[1].game_id = h

\* C22: a step of a submit-move on game g, accepted or rejected, leaves every
\* other game's row (board, status, winner, finished_at) and move log
\* unchanged, leaves the player slots of every game, g included, unchanged,
\* and leaves the player records unchanged.
C22_Independent ==
    [][/\ players' = players
       /\ \A h \in 1..Len(games) :
             /\ games'[h].player_x_id = games[h].player_x_id
             /\ games'[h].player_o_id = games[h].player_o_id
             /\ ~Written(h) => games'[h] = games[h] /\ MovesOf(h)' = MovesOf(h)]_vars

\* two games of two stored players, each with a mark on its board, after one
\* move was accepted on the second game and another refused
C22_Witness ==
    /\ Len(players) = 2
    /\ Len(games) = 2
    /\ games[1].player_x_id = 1
    /\ Marks(games[1].board, "X") = 1
    /\ Marks(games[2].board, "X") = 1
    /\ Len(MovesOf(2)) = 1
    /\ resp[1].err = CellOccupied

\* the player the spec reports for a stored game
Reported(game) ==
    CASE game.status = IN_PROGRESS -> Turn(game.board)
      [] game.status = X_WON -> "O"
      [] game.status = O_WON -> "X"
      [] game.status = DRAW -> "X"

C23_Reported ==
    "state" \in DOMAIN resp[1] =>
        resp[1].state.currentPlayer = Reported(resp[1].game)

C23_Flips ==
    (/\ req[1].pc = "flushed"
     /\ "state" \in DOMAIN resp'[1]
     /\ resp'[1].game.status = IN_PROGRESS)
    => /\ resp'[1].game = games'[1]
       /\ resp'[1].state.currentPlayer # Turn(games[1].board)
       /\ resp'[1].state.currentPlayer \in {"X", "O"}

\* C23: the current player in the response of get-game and of a successful
\* submit-move is the turn inferred from the board while the game is in
\* progress (the other player after an accepted move that does not end the
\* game), O for a game X won, X for a game O won and X for a draw.
C23_CurrentPlayer == []C23_Reported /\ [][C23_Flips]_vars

\* the response to the move with which O has won names X
C23_Witness ==
    /\ "state" \in DOMAIN resp[1]
    /\ resp[1].game.status = O_WON
    /\ resp[1].game = games[1]
    /\ resp[1].state.currentPlayer = "X"
    /\ Len(moves) = 6

====
